---------------------------- MODULE Spec2Model ----------------------------
(***************************************************************************)
(* A model of the drift-bottle plugin (src/main.py, class DriftBottlePlugin).*)
(*                                                                         *)
(* The plugin keeps one dictionary, user_data, with a "last_reset_date"    *)
(* and a "users" mapping from a sender id to a record dictionary           *)
(* {"pick", "throw"}.  Command handlers are coroutines of one event loop:  *)
(* a handler runs without interruption up to its next suspension point,    *)
(* which is a save (asyncio.to_thread), the outbound HTTP call, or its     *)
(* end.  Each save runs in a worker thread that opens (truncates) the      *)
(* file, serialises the live dictionary and writes the text when the file  *)
(* is closed.                                                              *)
(*                                                                         *)
(* Python dictionaries are objects: a handler's local user_count is a      *)
(* reference to a record dictionary, so the record dictionaries live in a  *)
(* heap and the users mapping holds their identities.                      *)
(*                                                                         *)
(* Dates are day numbers (time.strftime("%Y-%m-%d") changes exactly when   *)
(* the day does).  Texts are sequences of characters; a Chinese character  *)
(* is written as its pinyin in capitals ("CUO" is one character).          *)
(***************************************************************************)
EXTENDS Integers, Sequences, FiniteSets, TLC

\* ------------------------------------------------------------- bounds
\* The last day the clock reaches (the first day is 1).
MaxDay == 2
\* The number of command invocations the host delivers in one run.
MaxStarts == 2

\* ------------------------------------------------------------- inputs
\* The sender ids that occur (event.get_sender_id(), target_qq).
Users == {"u1", "u2"}
\* The handler coroutines that can be in flight together.
Slots == {"h1", "h2"}
\* Identities for the record dictionaries: every user and every handler
\* can keep one alive, so this many are always enough.
ObjIds == 1 .. (Cardinality(Users) + Cardinality(Slots))

\* ------------------------------------------------------------- texts
RECURSIVE LStrip(_)
\* str.strip(), the leading part: drop whitespace ("SP") from the front.
LStrip(t) == IF t # <<>> /\ Head(t) = "SP" THEN LStrip(Tail(t)) ELSE t

RECURSIVE RStrip(_)
\* str.strip(), the trailing part.
RStrip(t) ==
    IF t # <<>> /\ t[Len(t)] = "SP" THEN RStrip(SubSeq(t, 1, Len(t) - 1)) ELSE t

\* result.strip()
Strip(t) == RStrip(LStrip(t))

\* str.startswith(prefix)
StartsWith(t, p) == Len(t) >= Len(p) /\ SubSeq(t, 1, Len(p)) = p

\* str.startswith(tuple of prefixes)
StartsWithAny(t, ps) == \E p \in ps : StartsWith(t, p)

\* t[n:], a Python slice from index n (0-based) to the end.
SliceFrom(t, n) == SubSeq(t, n + 1, Len(t))

\* t[:n]
SliceTo(t, n) == SubSeq(t, 1, IF Len(t) < n THEN Len(t) ELSE n)

\* The remote error sentinel "错误：" of line 157: three characters.
Sentinel == <<"CUO", "WU", "COLON">>
\* "API错误：", what line 157 puts in front of the remote error text.
ApiErrorLabel == <<"A", "P", "I", "CUO", "WU", "COLON">>
\* The prefixes a handler takes for a failed call (lines 197 and 249):
\* "API错误", "请求", "调用".
FailPrefixes ==
    { <<"A", "P", "I", "CUO", "WU">>, <<"QING", "QIU">>, <<"DIAO", "YONG">> }

\* f"请求超时（{self.api_timeout}秒）：API响应过慢" (line 159)
TimeoutMessage(timeout) ==
    <<"QING", "QIU", "CHAO", "SHI", "(", ToString(timeout), "MIAO", ")">>
\* "连接失败：API服务器可能离线" (line 161)
ConnectionMessage == <<"LIAN", "JIE", "SHI", "BAI", "COLON">>
\* f"请求错误：HTTP {e.status}" (line 164)
HttpMessage(status) ==
    <<"QING", "QIU", "CUO", "WU", "COLON", "H", "T", "T", "P", ToString(status)>>
\* f"调用异常：{str(e)[:30]}..." (line 167)
UnknownMessage(exc) ==
    <<"DIAO", "YONG", "YI", "CHANG", "COLON">> \o SliceTo(<<exc>>, 30) \o <<"...">>

\* ------------------------------------------------------- bottle client
\* What the network does with one request: a response with a status and a
\* body, or one of the failures of the HTTP library.
NetOutcome(kind, status, body) == [kind |-> kind, status |-> status, body |-> body]

\* Response bodies the remote service sends: a bottle, a bottle wrapped in
\* whitespace, a bottle whose text begins with "请求", and a remote error
\* "错误：" followed by its description.
BottleBody == <<"b", "o", "t">>
PaddedBody == <<"SP", "b", "o", "t", "SP">>
RequestBody == <<"QING", "QIU", "b", "o", "t">>
RemoteErrorBody == <<"CUO", "WU", "COLON", "k", "e", "y">>
Bodies == {BottleBody, PaddedBody, RequestBody, RemoteErrorBody}

\* The outcomes of the outbound call.
NetOutcomes ==
    { NetOutcome("response", 200, b) : b \in Bodies }
        \cup { NetOutcome("response", 500, <<>>),
               NetOutcome("timeout", 0, <<>>),
               NetOutcome("connection", 0, <<>>),
               NetOutcome("other", 0, <<>>) }

\* The outcomes in the runs with handlers in flight together: a bottle, a
\* remote error and a timeout.
RuntimeNetOutcomes ==
    { NetOutcome("response", 200, BottleBody),
      NetOutcome("response", 200, RemoteErrorBody),
      NetOutcome("timeout", 0, <<>>) }

\* A call's end: a returned text, or an exception raised to the caller.
Returned(text) == [raised |-> FALSE, exc |-> "", value |-> text]
Raised(exc) == [raised |-> TRUE, exc |-> exc, value |-> <<>>]

\* The body of the try statement, lines 152-157: the request, the
\* raise_for_status() of a 4xx/5xx status, the trimmed text, and the
\* rewriting of a remote error.
TryBody(net) ==
    CASE net.kind = "timeout" -> Raised("TimeoutError")
      [] net.kind = "connection" -> Raised("ClientConnectorError")
      [] net.kind = "other" -> Raised("ClientPayloadError")
      [] OTHER ->
            IF net.status >= 400
            THEN Raised("ClientResponseError")
            ELSE LET result == Strip(net.body)
                 IN  Returned(IF ~StartsWith(result, Sentinel)
                              THEN result
                              ELSE ApiErrorLabel \o SliceFrom(result, 4))

\* The classes the except clauses of lines 158-165 name, in their order.
ExceptClauses ==
    <<"ClientTimeout", "ClientConnectionError", "ClientResponseError", "Exception">>

\* aiohttp.ClientTimeout is the timeout settings class (line 51 builds one),
\* not an exception class.
IsExceptionClass(cls) == cls # "ClientTimeout"

\* issubclass(exc, cls) for the exceptions of TryBody.
IsSubclass(exc, cls) ==
    CASE cls = "Exception" -> TRUE
      [] cls = "ClientConnectionError" -> exc = "ClientConnectorError"
      [] cls = "ClientResponseError" -> exc = "ClientResponseError"
      [] OTHER -> FALSE

\* What the except clause numbered i returns (lines 159, 161, 164, 167).
ExceptHandler(i, net, timeout, exc) ==
    CASE i = 1 -> Returned(TimeoutMessage(timeout))
      [] i = 2 -> Returned(ConnectionMessage)
      [] i = 3 -> Returned(HttpMessage(net.status))
      [] OTHER -> Returned(UnknownMessage(exc))

RECURSIVE MatchExcept(_, _, _, _)
\* Python's matching of a raised exception against the except clauses from
\* clause i on: a clause whose class is no exception class raises TypeError
\* ("catching classes that do not inherit from BaseException is not
\* allowed") out of the try statement; the first matching clause handles it.
MatchExcept(exc, i, net, timeout) ==
    IF i > Len(ExceptClauses) THEN Raised(exc)
    ELSE IF ~IsExceptionClass(ExceptClauses[i]) THEN Raised("TypeError")
    ELSE IF IsSubclass(exc, ExceptClauses[i]) THEN ExceptHandler(i, net, timeout, exc)
    ELSE MatchExcept(exc, i + 1, net, timeout)

\* _call_bottle_api, lines 151-167.
CallBottleApi(net, timeout) ==
    LET r == TryBody(net)
    IN  IF r.raised THEN MatchExcept(r.exc, 1, net, timeout) ELSE r

\* ------------------------------------------------------- configuration
\* dict.get(key, default) of the host's configuration object.
ConfigGet(config, key, default) ==
    IF key \in DOMAIN config THEN config[key] ELSE default

Max(a, b) == IF a >= b THEN a ELSE b

\* _init_aiohttp_session, lines 48-53: the total timeout of the session,
\* which is the timeout of every request made with it.
InitAiohttpSession(config) == ConfigGet(config, "api_timeout", 8)

\* _init_config, lines 65-67.
InitPickLimit(config) == Max(1, ConfigGet(config, "daily_pick_limit", 10))
InitThrowLimit(config) == Max(1, ConfigGet(config, "daily_throw_limit", 5))
InitApiTimeout(config) == Max(3, ConfigGet(config, "api_timeout", 8))

\* --------------------------------------------------------------- state
VARIABLES
    phase,              \* where the construction of the plugin stands
    config,             \* the host's configuration object (its keys)
    session_timeout,    \* total timeout of self.session
    api_timeout,    \* self.api_timeout
    daily_pick_limit,   \* self.daily_pick_limit
    daily_throw_limit,  \* self.daily_throw_limit
    today,              \* the local date, time.strftime("%Y-%m-%d")
    user_data,          \* self.user_data; its "users" holds record identities
    heap,               \* the record dictionaries {"pick", "throw"} by identity
    file,               \* the content of user_data.json
    h,                  \* the handler coroutine of each slot
    started,            \* command invocations delivered so far
    out,                \* the handler that ended in the last step, with its reply
    counting,           \* whether the run keeps the two counts below
    okPick,             \* per user: pick increments since the record was made or zeroed
    okThrow             \* per user: throw increments since the record was made or zeroed

vars ==
    <<phase, config, session_timeout, api_timeout, daily_pick_limit,
      daily_throw_limit, today, user_data, heap, file, h, started, out,
      counting, okPick, okThrow>>

pluginVars ==
    <<phase, config, session_timeout, api_timeout, daily_pick_limit,
      daily_throw_limit, counting>>

\* --------------------------------------------------------------- store
\* A dictionary with no keys.
NoDoc == [k \in {} |-> 0]

\* A record dictionary {"pick": p, "throw": t}.
Rec(p, t) == [pick |-> p, throw |-> t]

\* _get_default_user_data, lines 74-79, as the JSON value it is.
DefaultUserData(day) == [last_reset_date |-> day, users |-> NoDoc]

\* The JSON value json.dump writes for the live dictionary: the records a
\* "users" mapping refers to, by value.
Snapshot(ud, hp) ==
    IF "users" \in DOMAIN ud
    THEN [last_reset_date |-> ud.last_reset_date,
          users |-> [u \in DOMAIN ud.users |-> hp[ud.users[u]]]]
    ELSE ud

\* The length of the text json.dump(data, f, ensure_ascii=False, indent=2)
\* writes (line 111) for ten-character dates, two-character ids and
\* one-digit counts: 37 characters without "users", 52 with an empty
\* mapping, and 53 more for every record after 54.
JsonLen(doc) ==
    IF "users" \notin DOMAIN doc THEN 37
    ELSE IF DOMAIN doc.users = {} THEN 52
    ELSE 54 + 53 * Cardinality(DOMAIN doc.users)

\* A file: missing, or a text of some length that json.load either parses
\* to an object, parses to something else, or rejects.
FileOf(kind, len, doc) == [kind |-> kind, len |-> len, doc |-> doc]
MissingFile == FileOf("missing", 0, NoDoc)

\* json.dump of an object: the text.
JsonDump(doc) == FileOf("object", JsonLen(doc), doc)

\* open(path, "w"), line 110: the file exists and is empty.
Truncated == FileOf("malformed", 0, NoDoc)

\* Closing the file writes the buffered text at offset 0 (line 110-111).
\* What was written there since this writer's open stays beyond the text's
\* end, and a text with such a tail is no JSON document.
WriteAtStart(f, text) ==
    IF f.len <= text.len THEN text ELSE FileOf("malformed", f.len, NoDoc)

\* _save_user_data_sync, lines 108-111, with no other writer at work.
SaveUserDataSync(doc) == WriteAtStart(Truncated, JsonDump(doc))

\* Whether loading raises (lines 91-93): json.load rejects a malformed
\* text, and `"last_reset_date" not in data` raises TypeError for a number.
LoadRaises(f) == f.kind \in {"malformed", "number"}

\* The test of line 93 with another key than the one json.dump wrote: no
\* file has it.
LacksMistypedKey(f) == TRUE

\* `"last_reset_date" not in data` (line 93) for the values it accepts: an
\* object is searched for the key, a list for an element.
LacksResetDate(f) ==
    IF f.kind = "object" THEN "last_reset_date" \notin DOMAIN f.doc ELSE TRUE

\* _load_user_data, lines 82-101: the loaded value and the file it leaves.
\* The branches that fall back to the default data are the missing file
\* (85-88), a loaded value without "last_reset_date" (93-95), and an
\* exception (97-101): json.load rejecting the text, or line 93 raising.
LoadUserData(f, day) ==
    IF f.kind = "missing" \/ LoadRaises(f) \/ LacksResetDate(f)
    THEN [data |-> DefaultUserData(day), file |-> SaveUserDataSync(DefaultUserData(day))]
    ELSE [data |-> f.doc, file |-> f]

\* The identities given to the records of a loaded "users" mapping.
LoadedIds(doc) ==
    IF "users" \in DOMAIN doc
    THEN CHOOSE m \in [DOMAIN doc.users -> 1 .. Cardinality(DOMAIN doc.users)] :
            \A u, v \in DOMAIN doc.users : u # v => m[u] # m[v]
    ELSE NoDoc

\* self.user_data after `self.user_data = await self._load_user_data()`
\* (line 58): the dictionary, its records in the heap.
LoadedUserData(doc) ==
    IF "users" \in DOMAIN doc
    THEN [last_reset_date |-> doc.last_reset_date, users |-> LoadedIds(doc)]
    ELSE doc

LoadedHeap(doc) ==
    IF "users" \in DOMAIN doc
    THEN [i \in {LoadedIds(doc)[u] : u \in DOMAIN doc.users} |->
            doc.users[CHOOSE u \in DOMAIN doc.users : LoadedIds(doc)[u] = i]]
    ELSE NoDoc

\* ------------------------------------------------------------ handlers
\* The commands: handle_pick, handle_throw, handle_my_stats, admin_query,
\* admin_reset, admin_global.
UserCommands == {"pick", "throw", "my_stats"}

\* A local name that was never assigned.
Unbound == ""

\* A sender whose id cannot be resolved: event.get_sender_id() raises.
NoSender == "?"

NoReply == [kind |-> "none", text |-> <<>>, pick |-> 0, throw |-> 0, users |-> 0]
ReplyOf(kind, text, p, t, n) ==
    [kind |-> kind, text |-> text, pick |-> p, throw |-> t, users |-> n]

NoNet == NetOutcome("none", 0, <<>>)

\* A slot with no coroutine in it.
Idle ==
    [pc |-> "idle", sv |-> "none", cmd |-> "none", qq_id |-> Unbound,
     target_qq |-> Unbound, content |-> <<>>, message |-> <<>>,
     image_url |-> <<>>, user_count |-> 0, snap |-> NoDoc, net |-> NoNet,
     api_result |-> <<>>, reply |-> NoReply]

\* A message component: Comp.Plain, or Comp.Image with its url.
Plain == [type |-> "Plain", url |-> <<>>]
Image(url) == [type |-> "Image", url |-> url]

\* comp.url.startswith(("http://", "https://")), line 174.
IsHttpUrl(url) ==
    StartsWithAny(url, { <<"h", "t", "t", "p", ":", "/", "/">>,
                         <<"h", "t", "t", "p", "s", ":", "/", "/">> })

RECURSIVE ExtractAnyImageUrl(_)
\* The url of the first image, whatever its scheme.
ExtractAnyImageUrl(message) ==
    IF message = <<>> THEN <<>>
    ELSE IF Head(message).type = "Image"
         THEN Head(message).url
         ELSE ExtractAnyImageUrl(Tail(message))

RECURSIVE ExtractImageUrl(_)
\* _extract_image_url, lines 169-176: the url of the first image whose url
\* is an http(s) one, or None (the empty text).
ExtractImageUrl(message) ==
    IF message = <<>> THEN <<>>
    ELSE IF Head(message).type = "Image" /\ IsHttpUrl(Head(message).url)
         THEN Head(message).url
         ELSE ExtractImageUrl(Tail(message))

\* The state a handler works on between two suspension points: the
\* dictionary, the heap, the handler's own locals and the increment counts.
Work(ud, hp, hr, okp, okt) == [ud |-> ud, hp |-> hp, hr |-> hr, okp |-> okp, okt |-> okt]

\* The smallest identity not in use.
NewId(hp) == CHOOSE i \in ObjIds \ DOMAIN hp : \A j \in ObjIds \ DOMAIN hp : i <= j

\* A dictionary with one more (or one replaced) key.
DictSet(d, k, v) == [x \in DOMAIN d \cup {k} |-> IF x = k THEN v ELSE d[x]]

\* `await self._save_user_data(self.user_data)`: the save is handed to a
\* worker thread and the coroutine is suspended at `at`.
SubmitSave(st, at) == [st EXCEPT !.hr.pc = at, !.hr.sv = "submitted"]

\* The handler yields its reply and ends; what is left of it is the command
\* it was given and the reply.
Finish(st, reply) ==
    [st EXCEPT !.hr = [Idle EXCEPT !.pc = "done", !.cmd = st.hr.cmd,
                                   !.qq_id = st.hr.qq_id,
                                   !.target_qq = st.hr.target_qq,
                                   !.content = st.hr.content,
                                   !.message = st.hr.message,
                                   !.net = st.hr.net, !.reply = reply]]

\* An exception leaves the handler for the host.
Escape(st, exc) ==
    [st EXCEPT !.hr = [Idle EXCEPT !.pc = "escaped", !.cmd = st.hr.cmd,
                                   !.qq_id = st.hr.qq_id,
                                   !.target_qq = st.hr.target_qq,
                                   !.content = st.hr.content,
                                   !.message = st.hr.message,
                                   !.net = st.hr.net,
                                   !.reply = ReplyOf("exception", <<exc>>, 0, 0, 0)]]

\* f"{str(e)[:30]}..." of the except blocks.
ErrorText(exc) == SliceTo(<<exc>>, 30) \o <<"...">>

\* The `except Exception as e` block of a handler.  Those of handle_pick,
\* handle_throw and handle_my_stats (lines 219-221, 269-271, 288-290) first
\* log the local qq_id, which raises UnboundLocalError when the exception
\* came before qq_id was assigned; those of the admin commands (312-314,
\* 327-329, 346-348) use no local.
HandlerExcept(st, exc) ==
    IF st.hr.cmd \in UserCommands /\ st.hr.qq_id = Unbound
    THEN Escape(st, "UnboundLocalError")
    ELSE Finish(st, ReplyOf("error", ErrorText(exc), 0, 0, 0))

\* The limit check with `>` in place of `>=`.
LimitReachedStrict(count, limit) == count > limit

\* `count >= limit`, lines 189 and 233.
LimitReached(count, limit) == count >= limit

\* handle_pick after user_count is known, lines 188-196: the limit check,
\* then the outbound call.
PickBody(st) ==
    IF LimitReached(st.hp[st.hr.user_count].pick, daily_pick_limit)
    THEN Finish(st, ReplyOf("limit", <<>>, 0, 0, 0))
    ELSE [st EXCEPT !.hr.pc = "api"]

\* handle_throw after user_count is known, lines 232-248: the limit check,
\* the check that a text or an image came with the command, then the call.
ThrowBody(st) ==
    IF LimitReached(st.hp[st.hr.user_count].throw, daily_throw_limit)
    THEN Finish(st, ReplyOf("limit", <<>>, 0, 0, 0))
    ELSE LET image_url == ExtractImageUrl(st.hr.message)
         IN  IF st.hr.content = <<>> /\ image_url = <<>>
             THEN Finish(st, ReplyOf("validation", <<>>, 0, 0, 0))
             ELSE [st EXCEPT !.hr.pc = "api", !.hr.image_url = image_url]

\* handle_my_stats after user_count is known, lines 281-287.
StatsBody(st) ==
    Finish(st, ReplyOf("stats", <<>>, st.hp[st.hr.user_count].pick,
                       st.hp[st.hr.user_count].throw, 0))

\* `return self.user_data["users"][qq_id]`, line 133, and the handler's
\* code up to its next suspension point.  The lookup raises KeyError when
\* the key is not there.
ReturnUserCount(st) ==
    IF "users" \notin DOMAIN st.ud \/ st.hr.qq_id \notin DOMAIN st.ud.users
    THEN HandlerExcept(st, "KeyError")
    ELSE LET got == [st EXCEPT !.hr.user_count = st.ud.users[st.hr.qq_id]]
         IN  CASE st.hr.cmd = "pick" -> PickBody(got)
               [] st.hr.cmd = "throw" -> ThrowBody(got)
               [] OTHER -> StatsBody(got)

\* _get_user_count without the test of line 130: a record is made and
\* saved at every access.
GetUserCountAlwaysNew(st) ==
    IF "users" \notin DOMAIN st.ud THEN HandlerExcept(st, "KeyError")
    ELSE LET id == NewId(st.hp)
         IN  SubmitSave([st EXCEPT !.hp = DictSet(st.hp, id, Rec(0, 0)),
                                   !.ud.users = DictSet(st.ud.users, st.hr.qq_id, id)],
                        "create_save")

\* _get_user_count after the reset check, lines 130-133: a sender without
\* a record gets a zeroed one, which is saved.
GetUserCount(st) ==
    IF "users" \notin DOMAIN st.ud THEN HandlerExcept(st, "KeyError")
    ELSE IF st.hr.qq_id \notin DOMAIN st.ud.users
    THEN LET id == NewId(st.hp)
         IN  SubmitSave([st EXCEPT !.hp = DictSet(st.hp, id, Rec(0, 0)),
                                   !.ud.users = DictSet(st.ud.users, st.hr.qq_id, id),
                                   !.okp[st.hr.qq_id] = 0,
                                   !.okt[st.hr.qq_id] = 0],
                        "create_save")
    ELSE ReturnUserCount(st)

\* The reset without the comparison of the dates: it is done at every
\* access.
CheckResetDataAlways(st, day) ==
    SubmitSave([st EXCEPT !.ud = [last_reset_date |-> day, users |-> NoDoc]],
               "reset_save")

\* The reset with the line that empties "users" left out.
CheckResetDataKeepingUsers(st, day) ==
    IF st.ud.last_reset_date # day
    THEN SubmitSave([st EXCEPT !.ud.last_reset_date = day], "reset_save")
    ELSE GetUserCount(st)

\* _check_reset_data, lines 118-125, and what follows it in
\* _get_user_count: on another date than the stored one, the date is set,
\* "users" becomes a new empty dictionary, and the data is saved.
CheckResetData(st, day) ==
    IF st.ud.last_reset_date # day
    THEN SubmitSave([st EXCEPT !.ud = [last_reset_date |-> day, users |-> NoDoc],
                               !.okp = [u \in Users |-> 0],
                               !.okt = [u \in Users |-> 0]],
                    "reset_save")
    ELSE GetUserCount(st)

\* The start of handle_pick, handle_throw and handle_my_stats (lines
\* 185-186, 229-230, 278-279): the sender id, then _get_user_count.
HandlerEntry(st, sender, day) ==
    IF sender = NoSender
    THEN HandlerExcept(st, "AttributeError")
    ELSE CheckResetData([st EXCEPT !.hr.qq_id = sender], day)

RECURSIVE SumOver(_, _, _)
\* sum(u[key] for u in users.values()), lines 336-337.
SumOver(us, hp, key) ==
    IF DOMAIN us = {} THEN 0
    ELSE LET u == CHOOSE x \in DOMAIN us : TRUE
         IN  hp[us[u]][key] + SumOver([x \in DOMAIN us \ {u} |-> us[x]], hp, key)

\* admin_query, lines 303-311: the target's record, or zeros without one.
AdminQuery(st) ==
    IF "users" \notin DOMAIN st.ud THEN HandlerExcept(st, "KeyError")
    ELSE LET user_count ==
                IF st.hr.target_qq \in DOMAIN st.ud.users
                THEN st.hp[st.ud.users[st.hr.target_qq]]
                ELSE Rec(0, 0)
         IN  Finish(st, ReplyOf("admin_query", <<>>, user_count.pick,
                                user_count.throw, 0))

\* admin_reset without the membership test of line 320: the target gets a
\* zeroed record whether it had one or not.
AdminResetAnyTarget(st) ==
    IF "users" \notin DOMAIN st.ud THEN HandlerExcept(st, "KeyError")
    ELSE LET id == NewId(st.hp)
         IN  SubmitSave([st EXCEPT !.hp = DictSet(st.hp, id, Rec(0, 0)),
                                   !.ud.users = DictSet(st.ud.users, st.hr.target_qq, id)],
                        "admin_save")

\* admin_reset, lines 319-326: a target with a record gets a new zeroed
\* record dictionary, which is saved; a target without one gets a notice.
AdminReset(st) ==
    IF "users" \notin DOMAIN st.ud THEN HandlerExcept(st, "KeyError")
    ELSE IF st.hr.target_qq \in DOMAIN st.ud.users
    THEN LET id == NewId(st.hp)
         IN  SubmitSave([st EXCEPT !.hp = DictSet(st.hp, id, Rec(0, 0)),
                                   !.ud.users = DictSet(st.ud.users, st.hr.target_qq, id),
                                   !.okp[st.hr.target_qq] = 0,
                                   !.okt[st.hr.target_qq] = 0],
                        "admin_save")
    ELSE Finish(st, ReplyOf("admin_no_record", <<>>, 0, 0, 0))

\* admin_global, lines 334-345.
AdminGlobal(st) ==
    IF "users" \notin DOMAIN st.ud THEN HandlerExcept(st, "KeyError")
    ELSE Finish(st, ReplyOf("admin_global", <<>>,
                            SumOver(st.ud.users, st.hp, "pick"),
                            SumOver(st.ud.users, st.hp, "throw"),
                            Cardinality(DOMAIN st.ud.users)))

\* `user_count["pick"] += 1` or `user_count["throw"] += 1` and the save,
\* lines 202-203 and 254-255.
Increment(st) ==
    LET id == st.hr.user_count
    IN  IF st.hr.cmd = "pick"
        THEN SubmitSave([st EXCEPT !.hp[id].pick = @ + 1,
                                   !.okp[st.hr.qq_id] = @ + 1], "inc_save")
        ELSE SubmitSave([st EXCEPT !.hp[id].throw = @ + 1,
                                   !.okt[st.hr.qq_id] = @ + 1], "inc_save")

\* The handler with the increment moved in front of the failure check.
AfterCallCharging(st, net, timeout) ==
    LET r == CallBottleApi(net, timeout)
        st1 == [st EXCEPT !.hr.net = net]
        st2 == [st1 EXCEPT !.hp[st.hr.user_count][st.hr.cmd] = @ + 1]
    IN  IF r.raised THEN HandlerExcept(st2, r.exc)
        ELSE IF StartsWithAny(r.value, FailPrefixes)
        THEN Finish(st2, ReplyOf("fail", r.value, 0, 0, 0))
        ELSE Increment([st1 EXCEPT !.hr.api_result = r.value])

\* The handler when its outbound call has ended, lines 196-203 and
\* 248-255: an exception of _call_bottle_api goes to the except block, a
\* text with one of the failure prefixes is replied as a failure, any
\* other text counts as a bottle.
AfterCall(st, net, timeout) ==
    LET r == CallBottleApi(net, timeout)
        st1 == [st EXCEPT !.hr.net = net]
    IN  IF r.raised THEN HandlerExcept(st1, r.exc)
        ELSE IF StartsWithAny(r.value, FailPrefixes)
        THEN Finish(st1, ReplyOf("fail", r.value, 0, 0, 0))
        ELSE Increment([st1 EXCEPT !.hr.api_result = r.value])

\* The success reply with the remaining count, lines 204-218 and 256-268.
SuccessReply(st) ==
    IF st.hr.cmd = "pick"
    THEN Finish(st, ReplyOf("ok", st.hr.api_result,
                            daily_pick_limit - st.hp[st.hr.user_count].pick, 0, 0))
    ELSE Finish(st, ReplyOf("ok", st.hr.api_result, 0,
                            daily_throw_limit - st.hp[st.hr.user_count].throw, 0))

\* The coroutine goes on after its save: an exception of the save goes to
\* the except block, otherwise the code after the await runs.
AfterSave(st) ==
    LET st1 == [st EXCEPT !.hr.sv = "none"]
    IN  IF st.hr.sv = "failed" THEN HandlerExcept(st1, "OSError")
        ELSE CASE st.hr.pc = "reset_save" -> GetUserCount(st1)
               [] st.hr.pc = "create_save" -> ReturnUserCount(st1)
               [] st.hr.pc = "inc_save" -> SuccessReply(st1)
               [] OTHER -> Finish(st1, ReplyOf("admin_reset", <<>>, 0, 0, 0))

\* The identities some reference still reaches: a record dictionary with
\* no reference is freed.
Referenced(ud, hh) ==
    (IF "users" \in DOMAIN ud THEN {ud.users[u] : u \in DOMAIN ud.users} ELSE {})
        \cup {hh[s].user_count : s \in Slots}

Collect(hp, ud, hh) == [i \in DOMAIN hp \cap Referenced(ud, hh) |-> hp[i]]

\* ------------------------------------------------------------- actions
\* What comes with a throw command: its text and its message components.
ThrowInput(content, message) == [content |-> content, message |-> message]
HttpImage == Image(<<"h", "t", "t", "p", ":", "/", "/", "i">>)
FtpImage == Image(<<"f", "t", "p", ":", "/", "/", "i">>)
ThrowInputs ==
    { ThrowInput(<<>>, <<Plain>>),
      ThrowInput(<<"h", "i">>, <<Plain>>),
      ThrowInput(<<>>, <<Plain, FtpImage>>),
      ThrowInput(<<>>, <<Plain, FtpImage, HttpImage>>) }

\* The throw commands in the runs with handlers in flight together: one
\* with nothing to throw and one with a text.
RuntimeThrowInputs ==
    { ThrowInput(<<>>, <<Plain>>), ThrowInput(<<"h", "i">>, <<Plain>>) }

\* The state the handler of a slot works on.
WorkOf(hr) == Work(user_data, heap, hr, okPick, okThrow)

\* Whether the handler has ended, with a reply or with an exception.
Ended(hr) == hr.pc \in {"done", "escaped"}

\* The event loop ran the handler of slot s up to its next suspension
\* point, ending in `st`.  A handler that ended frees its slot, and `out`
\* shows it for the one step.
Commit(s, st) ==
    /\ h' = [h EXCEPT ![s] = IF Ended(st.hr) THEN Idle ELSE st.hr]
    /\ out' = IF Ended(st.hr) THEN st.hr ELSE Idle
    /\ user_data' = st.ud
    /\ heap' = Collect(st.hp, st.ud, h')
    /\ okPick' = IF counting THEN st.okp ELSE okPick
    /\ okThrow' = IF counting THEN st.okt ELSE okThrow

\* The host delivers a command; the handler takes the first free slot
\* (which slot it is makes no difference to a coroutine).
Deliver(s) ==
    /\ phase = "running"
    /\ h[s].pc = "idle"
    /\ s = "h2" => h["h1"].pc # "idle"
    /\ started < MaxStarts
    /\ started' = started + 1
    /\ UNCHANGED <<pluginVars, today, file>>

\* handle_pick is called, lines 182-196.
InvokePick(s, sender) ==
    /\ Deliver(s)
    /\ Commit(s, HandlerEntry(WorkOf([Idle EXCEPT !.cmd = "pick"]), sender, today))

\* handle_throw is called, lines 226-248.
InvokeThrow(s, sender, in) ==
    /\ Deliver(s)
    /\ Commit(s, HandlerEntry(WorkOf([Idle EXCEPT !.cmd = "throw",
                                                  !.content = in.content,
                                                  !.message = in.message]),
                              sender, today))

\* handle_my_stats is called, lines 275-290.
InvokeMyStats(s, sender) ==
    /\ Deliver(s)
    /\ Commit(s, HandlerEntry(WorkOf([Idle EXCEPT !.cmd = "my_stats"]), sender, today))

\* admin_query is called, lines 301-314.
InvokeAdminQuery(s, target) ==
    /\ Deliver(s)
    /\ Commit(s, AdminQuery(WorkOf([Idle EXCEPT !.cmd = "admin_query",
                                                !.target_qq = target])))

\* admin_reset is called, lines 317-329.
InvokeAdminReset(s, target) ==
    /\ Deliver(s)
    /\ Commit(s, AdminReset(WorkOf([Idle EXCEPT !.cmd = "admin_reset",
                                                !.target_qq = target])))

\* admin_global is called, lines 332-348.
InvokeAdminGlobal(s) ==
    /\ Deliver(s)
    /\ Commit(s, AdminGlobal(WorkOf([Idle EXCEPT !.cmd = "admin_global"])))

\* The outbound call of slot s ends with `net` and the handler goes on.
ApiReturn(s, net) ==
    /\ phase = "running"
    /\ h[s].pc = "api"
    /\ Commit(s, AfterCall(WorkOf(h[s]), net, api_timeout))
    /\ UNCHANGED <<pluginVars, today, file, started>>

\* The save of slot s is over and the handler goes on.
Resume(s) ==
    /\ phase = "running"
    /\ h[s].cmd # "terminate"
    /\ h[s].sv \in {"closed", "failed"}
    /\ Commit(s, AfterSave(WorkOf(h[s])))
    /\ UNCHANGED <<pluginVars, today, file, started>>

\* A step of a worker thread or of the clock: no handler ends in it.
Background ==
    /\ out' = Idle
    /\ UNCHANGED <<pluginVars, user_data, heap, started, okPick, okThrow>>

\* The worker thread of slot s opens the file for writing, line 110.
SaveOpen(s) ==
    /\ h[s].sv = "submitted"
    /\ h' = [h EXCEPT ![s].sv = "opened"]
    /\ file' = Truncated
    /\ UNCHANGED today
    /\ Background

\* The worker thread of slot s serialises the live dictionary, line 111.
SaveDump(s) ==
    /\ h[s].sv = "opened"
    /\ h' = [h EXCEPT ![s].sv = "dumped", ![s].snap = Snapshot(user_data, heap)]
    /\ UNCHANGED <<today, file>>
    /\ Background

\* The worker thread of slot s leaves the with block: the text is written.
SaveClose(s) ==
    /\ h[s].sv = "dumped"
    /\ h' = [h EXCEPT ![s].sv = "closed", ![s].snap = NoDoc]
    /\ file' = WriteAtStart(file, JsonDump(h[s].snap))
    /\ UNCHANGED today
    /\ Background

\* open() raises in the worker thread of slot s: the file cannot be written.
SaveFail(s) ==
    /\ h[s].sv = "submitted"
    /\ h' = [h EXCEPT ![s].sv = "failed"]
    /\ UNCHANGED <<today, file>>
    /\ Background

\* terminate is called with no handler in flight, lines 351-355: the
\* session is being closed.
InvokeTerminate(s) ==
    /\ phase = "running"
    /\ \A t \in Slots : h[t].pc = "idle"
    /\ s = "h1"
    /\ Commit(s, [WorkOf(Idle) EXCEPT !.hr.cmd = "terminate", !.hr.pc = "close"])
    /\ UNCHANGED <<pluginVars, today, file, started>>

\* The session is closed and terminate saves the data, line 359.
SessionClosed(s) ==
    /\ phase = "running"
    /\ h[s].pc = "close"
    /\ Commit(s, SubmitSave(WorkOf(h[s]), "terminate_save"))
    /\ UNCHANGED <<pluginVars, today, file, started>>

\* The save of terminate is over, lines 359-360: terminate returns, or the
\* exception of the save leaves it (terminate has no try statement).  The
\* plugin has stopped.
TerminateReturn(s) ==
    /\ phase = "running"
    /\ h[s].pc = "terminate_save"
    /\ h[s].sv \in {"closed", "failed"}
    /\ phase' = "terminated"
    /\ Commit(s, IF h[s].sv = "failed"
                 THEN Escape(WorkOf(h[s]), "OSError")
                 ELSE Finish(WorkOf(h[s]), NoReply))
    /\ UNCHANGED <<config, session_timeout, api_timeout, daily_pick_limit,
                   daily_throw_limit, counting, today, file, started>>

\* Midnight.
Tick ==
    /\ phase \in {"running", "terminated"}
    /\ today < MaxDay
    /\ today' = today + 1
    /\ UNCHANGED <<h, file>>
    /\ Background

\* ------------------------------------------------------- construction
\* The configuration of the runs with handlers in flight together: both
\* limits set to 1.
RuntimeConfigs == { [daily_pick_limit |-> 1, daily_throw_limit |-> 1] }

\* _init_config, lines 70-72: a daily_pick_limit other than the one in
\* force is written back to the configuration.
SavedConfig(cfg) ==
    IF "daily_pick_limit" \notin DOMAIN cfg
       \/ cfg["daily_pick_limit"] # InitPickLimit(cfg)
    THEN DictSet(cfg, "daily_pick_limit", InitPickLimit(cfg))
    ELSE cfg

\* No handler has run and nothing was counted.
NothingRun ==
    /\ h = [s \in Slots |-> Idle]
    /\ started = 0
    /\ out = Idle
    /\ okPick = [u \in Users |-> 0]
    /\ okThrow = [u \in Users |-> 0]

\* The plugin as __init__ (lines 30-46) leaves it, for configuration cfg
\* and file f.
Constructed(cfg, f) ==
    /\ phase = "running"
    /\ config = SavedConfig(cfg)
    /\ session_timeout = InitAiohttpSession(cfg)
    /\ api_timeout = InitApiTimeout(cfg)
    /\ daily_pick_limit = InitPickLimit(cfg)
    /\ daily_throw_limit = InitThrowLimit(cfg)
    /\ user_data = LoadedUserData(LoadUserData(f, today).data)
    /\ heap = LoadedHeap(LoadUserData(f, today).data)
    /\ file = LoadUserData(f, today).file
    /\ NothingRun

\* The host constructs the plugin again, lines 30-46, with the
\* configuration and the file the stopped one left.
Startup ==
    /\ phase = "terminated"
    /\ phase' = "running"
    /\ session_timeout' = InitAiohttpSession(config)
    /\ api_timeout' = InitApiTimeout(config)
    /\ daily_pick_limit' = InitPickLimit(config)
    /\ daily_throw_limit' = InitThrowLimit(config)
    /\ config' = SavedConfig(config)
    /\ user_data' = LoadedUserData(LoadUserData(file, today).data)
    /\ heap' = LoadedHeap(LoadUserData(file, today).data)
    /\ file' = LoadUserData(file, today).file
    /\ out' = Idle
    /\ UNCHANGED <<counting, today, h, started, okPick, okThrow>>

\* The plugin is constructed on day 1 with no file.
Init ==
    /\ today = 1
    /\ counting = FALSE
    /\ \E cfg \in RuntimeConfigs : Constructed(cfg, MissingFile)

\* The same, in a run that counts the increments.
InitCount ==
    /\ today = 1
    /\ counting = TRUE
    /\ \E cfg \in RuntimeConfigs : Constructed(cfg, MissingFile)

\* The steps of the handlers and of their saves.
Next ==
    \/ \E s \in Slots, u \in Users : InvokePick(s, u)
    \/ \E s \in Slots, u \in Users, in \in RuntimeThrowInputs : InvokeThrow(s, u, in)
    \/ \E s \in Slots, u \in Users : InvokeMyStats(s, u)
    \/ \E s \in Slots, u \in Users : InvokeAdminQuery(s, u)
    \/ \E s \in Slots, u \in Users : InvokeAdminReset(s, u)
    \/ \E s \in Slots : InvokeAdminGlobal(s)
    \/ \E s \in Slots, net \in RuntimeNetOutcomes : ApiReturn(s, net)
    \/ \E s \in Slots : Resume(s)
    \/ \E s \in Slots : SaveOpen(s)
    \/ \E s \in Slots : SaveDump(s)
    \/ \E s \in Slots : SaveClose(s)
    \/ Tick

\* Handlers in flight together, from a plugin constructed with no file.
Spec == Init /\ [][Next]_vars

\* The same runs, counting the increments of each user.
SpecCount == InitCount /\ [][Next]_vars

\* The faults of the host and of the disk: a command whose sender id
\* cannot be resolved, and a save that cannot open the file.
Fault ==
    \/ \E s \in Slots : InvokePick(s, NoSender)
    \/ \E s \in Slots, in \in RuntimeThrowInputs : InvokeThrow(s, NoSender, in)
    \/ \E s \in Slots : InvokeMyStats(s, NoSender)
    \/ \E s \in Slots : SaveFail(s)

NextFault == Next \/ Fault

\* The same runs with the faults.
SpecFault == Init /\ [][NextFault]_vars

\* The runs of the commands that make, read or replace a record without an
\* outbound call deciding it: pick, my-stats and the admin reset, in flight
\* together.
NextAccess ==
    \/ \E s \in Slots, u \in Users : InvokePick(s, u)
    \/ \E s \in Slots, u \in Users : InvokeMyStats(s, u)
    \/ \E s \in Slots, u \in Users : InvokeAdminReset(s, u)
    \/ \E s \in Slots : ApiReturn(s, NetOutcome("response", 200, BottleBody))
    \/ \E s \in Slots : Resume(s)
    \/ \E s \in Slots : SaveOpen(s)
    \/ \E s \in Slots : SaveDump(s)
    \/ \E s \in Slots : SaveClose(s)
    \/ Tick

SpecAccess == Init /\ [][NextAccess]_vars

\* ------------------------------------------- construction, step by step
\* A file holding the JSON object doc.
StoredObject(doc) == FileOf("object", JsonLen(doc), doc)

\* The files the plugin may find when it is constructed on day 1: none, a
\* text that is no JSON, a list, a number, objects without one or both of
\* the fields, the data of the same day and the data of an earlier day.
BootFiles ==
    { MissingFile,
      FileOf("malformed", 5, NoDoc),
      FileOf("array", 2, NoDoc),
      FileOf("number", 1, NoDoc),
      FileOf("object", 2, NoDoc),
      FileOf("object", 17, [users |-> NoDoc]),
      StoredObject([last_reset_date |-> 1]),
      StoredObject([last_reset_date |-> 0]),
      StoredObject([last_reset_date |-> 1, users |-> [u \in {"u1"} |-> Rec(2, 1)]]),
      StoredObject([last_reset_date |-> 0, users |-> [u \in {"u1"} |-> Rec(3, 1)]]) }

\* The configurations the host may hold: nothing set, a timeout below the
\* floor, a pick limit below the floor, and everything set.
BootConfigs ==
    { NoDoc,
      [api_timeout |-> 1],
      [api_timeout |-> 3, daily_pick_limit |-> 0],
      [api_timeout |-> 10, daily_pick_limit |-> 1, daily_throw_limit |-> 1] }

\* __init__ is entered, line 30: nothing is set yet.
InitBoot ==
    /\ phase = "new"
    /\ config \in BootConfigs
    /\ file \in BootFiles
    /\ today = 1
    /\ counting = FALSE
    /\ session_timeout = 0
    /\ api_timeout = 0
    /\ daily_pick_limit = 0
    /\ daily_throw_limit = 0
    /\ user_data = NoDoc
    /\ heap = NoDoc
    /\ NothingRun

\* Line 37: the session is made.
BootSession ==
    /\ phase = "new"
    /\ phase' = "session"
    /\ session_timeout' = InitAiohttpSession(config)
    /\ UNCHANGED <<config, api_timeout, daily_pick_limit, daily_throw_limit, counting,
                   today, user_data, heap, file, h, started, out, okPick, okThrow>>

\* Line 57: the configuration is read and completed.
BootConfig ==
    /\ phase = "session"
    /\ phase' = "config"
    /\ api_timeout' = InitApiTimeout(config)
    /\ daily_pick_limit' = InitPickLimit(config)
    /\ daily_throw_limit' = InitThrowLimit(config)
    /\ config' = SavedConfig(config)
    /\ UNCHANGED <<session_timeout, counting, today, user_data, heap, file, h, started,
                   out, okPick, okThrow>>

\* Line 58: the user data is loaded.
BootLoad ==
    /\ phase = "config"
    /\ phase' = "running"
    /\ user_data' = LoadedUserData(LoadUserData(file, today).data)
    /\ heap' = LoadedHeap(LoadUserData(file, today).data)
    /\ file' = LoadUserData(file, today).file
    /\ UNCHANGED <<config, session_timeout, api_timeout, daily_pick_limit,
                   daily_throw_limit, counting, today, h, started, out, okPick, okThrow>>

\* The construction, then commands handled one at a time.
NextBoot ==
    \/ BootSession
    \/ BootConfig
    \/ BootLoad
    \/ \E u \in Users : InvokePick("h1", u)
    \/ \E u \in Users, in \in ThrowInputs : InvokeThrow("h1", u, in)
    \/ \E u \in Users : InvokeMyStats("h1", u)
    \/ \E u \in Users : InvokeAdminQuery("h1", u)
    \/ \E u \in Users : InvokeAdminReset("h1", u)
    \/ InvokeAdminGlobal("h1")
    \/ \E net \in NetOutcomes : ApiReturn("h1", net)
    \/ Resume("h1")
    \/ SaveOpen("h1")
    \/ SaveDump("h1")
    \/ SaveClose("h1")
    \/ InvokeTerminate("h1")
    \/ SessionClosed("h1")
    \/ TerminateReturn("h1")
    \/ Startup
    \/ Tick

SpecBoot == InitBoot /\ [][NextBoot]_vars

\* --------------------------------------------------------------- claims
\* No handler is in flight (a handler awaits its save, so no save is either).
Quiescent == phase = "running" /\ \A s \in Slots : h[s].pc = "idle"

\* The counts the users mapping holds, as a document.
Stored == Snapshot(user_data, heap)

\* Whether u has a record in the users mapping.
HasRecord(u) == "users" \in DOMAIN user_data /\ u \in DOMAIN user_data.users

\* The cap of an action.
LimitOf(cmd) == IF cmd = "pick" THEN daily_pick_limit ELSE daily_throw_limit

\* The slot a delivered command takes.
FreeSlot == IF h["h1"].pc = "idle" THEN "h1" ELSE "h2"

\* The handler a step has started, as the step leaves it.
Entered == IF out' # Idle THEN out' ELSE h'[FreeSlot]

\* The outbound call ended in a failure.
Failure(net) ==
    \/ net.kind \in {"timeout", "connection", "other"}
    \/ net.kind = "response" /\ net.status >= 400
    \/ net.kind = "response" /\ StartsWith(Strip(net.body), Sentinel)

\* C1: in every reachable state every stored pick count is at most
\* daily_pick_limit and every stored throw count at most daily_throw_limit,
\* in any interleaving of the handlers.
CountsWithinLimits ==
    \A u \in Users :
        HasRecord(u) =>
            /\ heap[user_data.users[u]].pick <= daily_pick_limit
            /\ heap[user_data.users[u]].throw <= daily_throw_limit

\* C2: once all invocations have finished, the pick (throw) count stored
\* for a user equals the number of increments made for that user since the
\* record was last zeroed or created, as long as that number is within the
\* cap.
NoIncrementLost ==
    Quiescent =>
        \A u \in Users :
            HasRecord(u) =>
                /\ okPick[u] <= daily_pick_limit
                        => heap[user_data.users[u]].pick = okPick[u]
                /\ okThrow[u] <= daily_throw_limit
                        => heap[user_data.users[u]].throw = okThrow[u]

\* C3: every command, the admin commands included, runs the daily-reset
\* check first: when the first step of a command is over, last_reset_date
\* is the current date.
ResetCheckFirst ==
    [][started' = started + 1 => user_data'.last_reset_date = today']_vars

\* C4: whenever no invocation and no save is in progress, the file holds
\* the in-memory store.
FileIsStore == Quiescent => file = JsonDump(Stored)

\* C5: a timeout, a connection failure, a 4xx/5xx status and any other
\* exception of the outbound call each come back from _call_bottle_api as
\* a text of their own, which the handler replies as the failure; no
\* exception leaves _call_bottle_api.
FailuresAreResults ==
    /\ out.net.kind = "timeout"
            => out.reply = ReplyOf("fail", TimeoutMessage(api_timeout), 0, 0, 0)
    /\ out.net.kind = "connection"
            => out.reply = ReplyOf("fail", ConnectionMessage, 0, 0, 0)
    /\ out.net.kind = "response" /\ out.net.status >= 400
            => out.reply = ReplyOf("fail", HttpMessage(out.net.status), 0, 0, 0)
    /\ out.net.kind = "other"
            => out.reply = ReplyOf("fail", UnknownMessage("ClientPayloadError"), 0, 0, 0)

\* C6: no exception leaves a handler, whatever step raised it.
NothingEscapes == out.pc # "escaped"

\* C7: after the load the in-memory store has both fields, whatever the
\* file held.
LoadedStoreHasBothFields ==
    phase = "running" => {"last_reset_date", "users"} \subseteq DOMAIN user_data

\* C8: the outbound call is made with the timeout max(3, api_timeout), 8
\* standing for an api_timeout that is not configured.
CallTimeoutHasFloor ==
    \A s \in Slots :
        h[s].pc = "api" => session_timeout = Max(3, ConfigGet(config, "api_timeout", 8))

\* C9: a pick (throw) command of a user whose count for the action is at
\* or above the cap when the handler checks it is answered with the limit
\* reply in that same step: no outbound call is made and the stored counts
\* and the file stay as they were.
LimitReplyAtCap ==
    [][\A u \in Users, cmd \in {"pick", "throw"} :
            (/\ started' = started + 1
             /\ Entered.cmd = cmd
             /\ Entered.qq_id = u
             /\ user_data.last_reset_date = today
             /\ HasRecord(u)
             /\ heap[user_data.users[u]][cmd] >= LimitOf(cmd))
            => /\ out'.pc = "done"
               /\ out'.reply.kind = "limit"
               /\ \A s \in Slots : h'[s].pc # "api"
               /\ Stored' = Stored
               /\ file' = file]_vars

\* A command was answered with the limit reply.
LimitReplied == out.cmd \in {"pick", "throw"} /\ out.reply.kind = "limit"

\* C10: from the start of the outbound call of a pick or throw to its end
\* in a failure, the stored counts and the file stay as they were, and the
\* failure ends the handler with an error reply (the failure reply of
\* lines 197-199 and 249-251, or the reply of the except block).
FailedCallChargesNothing ==
    [][\A s \in Slots :
            h[s].pc = "api" =>
                /\ h'[s].pc = "api" => Stored' = Stored /\ file' = file
                /\ h'[s].pc # "api" /\ Failure((IF out' # Idle THEN out' ELSE h'[s]).net)
                        => /\ out'.pc = "done"
                           /\ out'.reply.kind \in {"fail", "error"}
                           /\ out'.reply.text # <<>>
                           /\ Stored' = Stored
                           /\ file' = file]_vars

\* The call of a command ended in a failure and the command was answered.
FailedCallReplied ==
    /\ out.cmd \in {"pick", "throw"}
    /\ Failure(out.net)
    /\ out.reply.kind \in {"fail", "error"}

\* The message carries no image with an http(s) url.
NoHttpImage(message) ==
    \A i \in DOMAIN message :
        ~(message[i].type = "Image" /\ IsHttpUrl(message[i].url))

\* The throw command came with neither a text nor an http(s) image.
NothingToThrow(hr) ==
    hr.cmd = "throw" /\ hr.content = <<>> /\ NoHttpImage(hr.message)

\* C11 as claimed: every throw command that comes with neither a text nor
\* an http(s) image is answered with the validation message, in every
\* state of the store.
EmptyThrowIsValidationReply ==
    out.pc = "done" /\ NothingToThrow(out) => out.reply.kind = "validation"

\* C11 as amended: a throw command with neither a text nor an http(s)
\* image never gets to the outbound call, and when its handler gets to the
\* content check (the sender's throw count is below the cap, at the entry
\* or after the save of the new record) it is answered with the validation
\* message.
EmptyThrowBelowCapIsValidationReply ==
    [][/\ \A u \in Users :
            (/\ started' = started + 1
             /\ NothingToThrow(Entered)
             /\ Entered.qq_id = u
             /\ user_data.last_reset_date = today
             /\ HasRecord(u)
             /\ heap[user_data.users[u]].throw < daily_throw_limit)
            => out'.pc = "done" /\ out'.reply.kind = "validation"
       /\ \A s \in Slots :
            (/\ h[s].pc = "create_save"
             /\ h[s].sv = "closed"
             /\ h'[s] # h[s]
             /\ NothingToThrow(h[s])
             /\ HasRecord(h[s].qq_id))
            => out'.pc = "done" /\ out'.reply.kind = "validation"
       /\ \A s \in Slots :
            h'[s].pc = "api" /\ h'[s].cmd = "throw"
                => h'[s].content # <<>> \/ IsHttpUrl(h'[s].image_url)]_vars

\* A throw command with nothing to throw was answered with the validation
\* message.
EmptyThrowRefused == NothingToThrow(out) /\ out.reply.kind = "validation"

\* A command of a user is delivered while the stored date is not the
\* current one.
StaleAccess ==
    /\ started' = started + 1
    /\ Entered.cmd \in UserCommands
    /\ Entered.qq_id \in Users
    /\ user_data.last_reset_date # today

\* The handler of slot s goes on after the save at `at`.
GoesOnAfter(s, at) == h[s].pc = at /\ h[s].sv = "closed" /\ h'[s] # h[s]

\* The users mapping of the dictionary is the empty one.
EmptyUsers(ud) == "users" \in DOMAIN ud /\ ud.users = NoDoc

\* C12 as claimed: a quota access that finds another stored date than the
\* current one leaves the users mapping empty and last_reset_date at the
\* current date, at its reset and when it goes on after the reset.
StaleAccessLeavesNoUsers ==
    [][/\ StaleAccess
            => EmptyUsers(user_data') /\ user_data'.last_reset_date = today'
       /\ \A s \in Slots :
            GoesOnAfter(s, "reset_save")
                => EmptyUsers(user_data') /\ user_data'.last_reset_date = today']_vars

\* C12 as amended: the reset check of such an access sets last_reset_date
\* to the date it read and makes the users mapping empty; when the access
\* goes on after the save of the reset, it adds the zeroed record of the
\* accessing user, which is then the only record, and returns it without
\* another change of the store.
StaleAccessLeavesOnlyTheSender ==
    [][/\ StaleAccess
            => /\ EmptyUsers(user_data')
               /\ user_data'.last_reset_date = today
               /\ h'[FreeSlot].pc = "reset_save"
       /\ \A s \in Slots :
            GoesOnAfter(s, "reset_save")
                => /\ Stored'.users = [u \in {h[s].qq_id} |-> Rec(0, 0)]
                   /\ user_data'.last_reset_date = user_data.last_reset_date
                   /\ h'[s].pc = "create_save"
       /\ \A s \in Slots :
            GoesOnAfter(s, "create_save") => Stored' = Stored]_vars

\* The reset of a quota access has emptied a mapping that held records.
StaleStoreReset ==
    /\ h["h1"].pc = "reset_save"
    /\ EmptyUsers(user_data)
    /\ file.kind = "object"
    /\ "users" \in DOMAIN file.doc
    /\ file.doc.users # NoDoc

\* A command of user u is delivered on the stored date.
FreshAccess(u) ==
    /\ started' = started + 1
    /\ Entered.cmd \in UserCommands
    /\ Entered.qq_id = u
    /\ user_data.last_reset_date = today
    /\ "users" \in DOMAIN user_data

\* The handler of slot s, as the step leaves it, holds the record the
\* users mapping has for its sender, unless it has ended.
HoldsStoredRecord(s) ==
    h'[s].pc # "idle" => h'[s].user_count = user_data'.users[h'[s].qq_id]

ResetCheckIdempotent ==
    [][\A u \in Users :
            (/\ started' = started + 1
             /\ Entered.cmd \in UserCommands
             /\ Entered.qq_id = u
             /\ user_data.last_reset_date = today)
            => /\ user_data'.last_reset_date = user_data.last_reset_date
               /\ DOMAIN user_data' = DOMAIN user_data
               /\ h'[FreeSlot].pc # "reset_save"
               /\ h'[FreeSlot].sv = "submitted" => ~HasRecord(u)
               /\ \A v \in Users \ {u} : HasRecord(v)' = HasRecord(v)
               /\ \A v \in Users :
                    HasRecord(v) => HasRecord(v)' /\ Stored'.users[v] = Stored.users[v]]_vars

\* On day 2 a first command has run the reset and a second command has
\* run the check again.
CheckedAgainAfterReset ==
    /\ today = 2
    /\ user_data.last_reset_date = 2
    /\ started = 2
    /\ h["h1"].cmd \in UserCommands
    /\ h["h1"].pc = "api"

\* The store a startup gets from the file that a save of the in-memory
\* store, with no other writer at work, leaves.
SavedThenLoaded ==
    LET loaded == LoadUserData(SaveUserDataSync(Stored), today)
    IN  [store |-> Snapshot(LoadedUserData(loaded.data), LoadedHeap(loaded.data)),
         file |-> loaded.file]

\* C15: for every in-memory store the plugin reaches, saving it and
\* loading the file as at startup gives a store with the same
\* last_reset_date and the same users mapping, and leaves the file as the
\* save wrote it; when terminate returns normally the file holds the
\* in-memory store, and the next startup loads exactly that store.
SaveThenLoadIsIdentity ==
    [][/\ phase = "running"
            => SavedThenLoaded = [store |-> Stored, file |-> JsonDump(Stored)]
       /\ phase = "running" /\ phase' = "terminated" /\ out'.pc = "done"
            => file' = JsonDump(Stored) /\ Stored' = Stored
       /\ phase = "terminated" /\ phase' = "running" /\ file = JsonDump(Stored)
            => Stored' = Stored /\ file' = file]_vars

\* terminate has returned normally for a plugin whose store holds a count,
\* and the file is the saved store.
TerminatedWithRecords ==
    /\ phase = "terminated"
    /\ out.cmd = "terminate"
    /\ out.pc = "done"
    /\ \E u \in Users : HasRecord(u) /\ heap[user_data.users[u]].pick > 0
    /\ file = JsonDump(Stored)

\* The call ended with a 2xx response whose trimmed body does not start
\* with the remote error sentinel.
BottleReceived(net) ==
    /\ net.kind = "response"
    /\ net.status \in 200 .. 299
    /\ ~StartsWith(Strip(net.body), Sentinel)

\* C16: a pick or throw whose call ended with a 2xx response that does not
\* start with the remote error sentinel ends, whatever the body's first
\* characters are, with the success reply holding the trimmed body.
EveryBottleIsSuccess ==
    out.cmd \in {"pick", "throw"} /\ out.pc = "done" /\ BottleReceived(out.net)
        => out.reply.kind = "ok" /\ out.reply.text = Strip(out.net.body)

\* C17: for a response whose trimmed body starts with the remote error
\* sentinel, the error text the client returns (and the handler replies)
\* is the label followed by exactly the rest of the body after the
\* sentinel.
RemoteErrorTextIsRemainder ==
    /\ out.cmd \in {"pick", "throw"}
    /\ out.pc = "done"
    /\ out.net.kind = "response"
    /\ out.net.status \in 200 .. 299
    /\ StartsWith(Strip(out.net.body), Sentinel)
    => out.reply.text = ApiErrorLabel \o SliceFrom(Strip(out.net.body), Len(Sentinel))

\* An admin command `cmd` for target t is delivered.
AdminCommand(cmd, t) ==
    /\ started' = started + 1
    /\ Entered.cmd = cmd
    /\ Entered.target_qq = t

\* C18: an admin reset of a target with a record makes both counters of
\* that record 0 and saves the store, which the file holds when the
\* handler goes on, every other record and last_reset_date staying as
\* they were; an admin reset of a target without a record and an admin
\* query leave the users mapping, last_reset_date and the file as they
\* were, and no record is made.
AdminResetChangesOnlyTarget ==
    [][/\ \A t \in Users :
            AdminCommand("admin_reset", t) /\ HasRecord(t)
                => /\ Stored' = [Stored EXCEPT !.users[t] = Rec(0, 0)]
                   /\ h'[FreeSlot].pc = "admin_save"
                   /\ h'[FreeSlot].sv = "submitted"
       /\ \A s \in Slots :
            GoesOnAfter(s, "admin_save")
                => /\ file = JsonDump(Stored)
                   /\ Stored' = Stored
                   /\ file' = file
                   /\ out'.reply.kind = "admin_reset"
       /\ \A t \in Users :
            AdminCommand("admin_reset", t) /\ ~HasRecord(t)
                => /\ user_data' = user_data
                   /\ heap' = heap
                   /\ file' = file
                   /\ out'.reply.kind \in {"admin_no_record", "error"}
       /\ \A t \in Users :
            AdminCommand("admin_query", t)
                => user_data' = user_data /\ heap' = heap /\ file' = file]_vars

\* An admin reset of a user with a record has been answered: the record
\* is zeroed and the file holds the store.
AdminResetDone ==
    /\ out.cmd = "admin_reset"
    /\ out.reply.kind = "admin_reset"
    /\ Stored.users[out.target_qq] = Rec(0, 0)
    /\ file = JsonDump(Stored)

\* C19: a pick or throw that ends with a failure reply (limit reached,
\* validation, failed call, or the operation-failed reply of the except
\* block) leaves its sender's counters in memory as they were when it was
\* delivered.  Stated for the first command of a plugin constructed with
\* an empty store, where both counters are 0 at that moment and no other
\* invocation exists.
FailedCommandChargesNothing ==
    /\ started = 1
    /\ out.cmd \in {"pick", "throw"}
    /\ out.pc = "done"
    /\ out.reply.kind \in {"limit", "validation", "fail", "error"}
    => \A u \in Users : HasRecord(u) => heap[user_data.users[u]] = Rec(0, 0)

=============================================================================
